---- MODULE Spec2Model ----
(***************************************************************************)
(* Student and Teacher Management System (src/src/main.py and the modules  *)
(* it imports): two JSON files holding a list of teacher records and a     *)
(* list of student records, a menu loop that reads a choice and runs one   *)
(* handler per choice, and the scoring functions of the Student class.     *)
(*                                                                         *)
(* A Python dict is a TLA+ record (a function on strings), a list is a     *)
(* sequence, a raised exception is the exception's name.  Strings whose    *)
(* characters the code inspects (email, phone number) are sequences of    *)
(* one-character strings; all other strings are TLA+ strings.             *)
(***************************************************************************)
EXTENDS Integers, Sequences, FiniteSets, TLC

VARIABLES
    teachersFile,   \* ../data/teachers.json: [exists, data]
    studentsFile,   \* ../data/students.json: [exists, data]
    pc,             \* "menu" (at input()), "exited" (break), "crashed" (uncaught exception)
    op,             \* the choice the last iteration of the menu loop read
    cred,           \* <<name, id>> handed to authenticate_teacher in that iteration, else <<>>
    authed,         \* what authenticate_teacher did in that iteration: "True", "AuthenticationError", "not called"
    key,            \* the teacher id / roll number submitted in that iteration, else ""
    name,           \* the name searched for or deleted in that iteration, else ""
    err,            \* the exception raised last in that iteration (caught or not), else "none"
    out,            \* the status lines that iteration printed
    ret,            \* what the model function called by that iteration returned
    removed,        \* <<teachers removed, students removed>> by that iteration
    histT,          \* every teacher record created so far, in creation order, with a mark
    histS           \* every student record created so far, in creation order, with a mark

vars == <<teachersFile, studentsFile, pc, op, cred, authed, key, name, err, out, ret,
          removed, histT, histS>>

-----------------------------------------------------------------------------
(* Bounds and input domains *)

MaxTeachers == 2
MaxStudents == 2
MaxScored == 2
MaxHist == 4

PASS_MARK == 32

Names == {"a", "b"}
Ids == {"1", "2"}
Rolls == {"r1", "r2"}
SubjectNames == {"c", "python"}
MarkValues == {PASS_MARK - 1, PASS_MARK, PASS_MARK + 1}

\* every marks mapping over a subset of the subject names ({} included)
AllMarks == UNION {[S -> MarkValues] : S \in SUBSET SubjectNames}
\* the marks mappings typed in at the menu
MenuMarks == {m \in AllMarks : DOMAIN m \subseteq {"c"} /\ \A s \in DOMAIN m : m[s] > PASS_MARK}

ValidEmail == <<"t", "@", "s", ".", "x">>
NoDotEmail == <<"t", "@", "s">>

Phone10 == <<"1", "2", "3", "4", "5", "6", "7", "8", "9", "0">>
Phone3 == <<"1", "2", "3">>
PhoneAlpha == <<"a", "b", "c">>
\* the (email, phone number) pairs typed in for a teacher: at most one of the two is bad
TeacherContacts == {<<ValidEmail, Phone10>>, <<NoDotEmail, Phone10>>,
                    <<ValidEmail, Phone3>>, <<ValidEmail, PhoneAlpha>>}
\* the (phone number, marks) pairs typed in for a student
StudentEntries == ({Phone10} \X MenuMarks) \cup {<<PhoneAlpha, m>> : m \in {m \in MenuMarks : DOMAIN m # {}}}

-----------------------------------------------------------------------------
(* file_operations.py *)

AbsentFile == [exists |-> FALSE, data |-> <<>>]

\* json.load of the file, [] on FileNotFoundError
read_json(file) == IF file.exists THEN file.data ELSE <<>>

\* the file after json.dump(data): created or fully replaced
write_json(file, data) == [exists |-> TRUE, data |-> data]

append_json_front(file, new_data) == write_json(file, <<new_data>> \o read_json(file))

append_json(file, new_data) == write_json(file, Append(read_json(file), new_data))

-----------------------------------------------------------------------------
(* authentication.py *)

RECURSIVE auth_scan(_, _, _, _)
\* the for loop over data from entry i on: return True at the first entry
\* whose name and id both match, raise AuthenticationError after the last
auth_scan(data, i, n, teacher_id) ==
    IF i > Len(data) THEN "AuthenticationError"
    ELSE IF data[i].name = n /\ data[i].id = teacher_id THEN "True"
    ELSE auth_scan(data, i + 1, n, teacher_id)

auth_either(file, n, teacher_id) ==
    IF \E i \in 1..Len(read_json(file)) :
           read_json(file)[i].name = n \/ read_json(file)[i].id = teacher_id
    THEN "True" ELSE "AuthenticationError"

authenticate_teacher(file, n, teacher_id) == auth_scan(read_json(file), 1, n, teacher_id)

-----------------------------------------------------------------------------
(* models/teacher.py: validation *)

Digits == {"0", "1", "2", "3", "4", "5", "6", "7", "8", "9"}

\* the value of each decimal digit character
DigitVal == [c \in Digits |-> CHOOSE d \in 0..9 : ToString(d) = c]

RECURSIVE DigitsVal(_)
DigitsVal(s) == IF s = <<>> THEN 0
                ELSE 10 * DigitsVal(SubSeq(s, 1, Len(s) - 1)) + DigitVal[s[Len(s)]]

\* int(s) for a string of an optional sign and digits: [ok, val]; ok = FALSE is ValueError
int(s) ==
    LET body == IF s # <<>> /\ s[1] \in {"-", "+"} THEN Tail(s) ELSE s
    IN  IF body = <<>> \/ \E i \in 1..Len(body) : body[i] \notin Digits
        THEN [ok |-> FALSE, val |-> 0]
        ELSE [ok |-> TRUE,
              val |-> IF s[1] = "-" THEN 0 - DigitsVal(body) ELSE DigitsVal(body)]

RECURSIVE NatStrLen(_)
NatStrLen(n) == IF n < 10 THEN 1 ELSE 1 + NatStrLen(n \div 10)

\* len(str(n)) of an int: the minus sign counts
StrLen(n) == IF n < 0 THEN 1 + NatStrLen(0 - n) ELSE NatStrLen(n)

\* re.match(r"[^@]+@[^@]+\.[^@]+", email): a match of a prefix of email
validate_email(email) ==
    \E i \in 2..Len(email) :
        /\ \A p \in 1..(i - 1) : email[p] # "@"
        /\ email[i] = "@"
        /\ \E j \in (i + 2)..Len(email) :
               /\ \A p \in (i + 1)..(j - 1) : email[p] # "@"
               /\ email[j] = "."
               /\ \E k \in (j + 1)..Len(email) : \A p \in (j + 1)..k : email[p] # "@"

\* isinstance(phone_number, int) and len(str(phone_number)) == 10
validate_phone_number(phone_number) == StrLen(phone_number) = 10

-----------------------------------------------------------------------------
(* models/teacher.py, models/student.py: the record repository *)

\* the dict Teacher.accept appends
TeacherData(n, subject, teacher_id, address, email, phone_number) ==
    [name |-> n, subject |-> subject, id |-> teacher_id, address |-> address,
     email |-> email, phone_number |-> phone_number]

\* the dict Student.accept appends
StudentData(n, roll_number, email, phone_number, marks, address) ==
    [name |-> n, roll_number |-> roll_number, email |-> email,
     phone_number |-> phone_number, marks |-> marks, address |-> address]

RECURSIVE search_scan(_, _, _)
\* the for loop of search: the first entry with the name, else NoMatchingNameError
search_scan(data, i, n) ==
    IF i > Len(data) THEN [found |-> FALSE, entry |-> <<>>]
    ELSE IF data[i].name = n THEN [found |-> TRUE, entry |-> data[i]]
    ELSE search_scan(data, i + 1, n)

\* Teacher.search and Student.search (the same code)
search(file, n) == search_scan(read_json(file), 1, n)

RECURSIVE drop_first(_, _)
drop_first(data, n) ==
    IF data = <<>> THEN <<>>
    ELSE IF Head(data).name = n THEN Tail(data)
    ELSE <<Head(data)>> \o drop_first(Tail(data), n)

delete_first(file, n) == write_json(file, drop_first(read_json(file), n))

RECURSIVE keep_others(_, _)
\* [entry for entry in data if entry['name'] != name]
keep_others(data, n) ==
    IF data = <<>> THEN <<>>
    ELSE (IF Head(data).name # n THEN <<Head(data)>> ELSE <<>>) \o keep_others(Tail(data), n)

\* Teacher.delete and Student.delete (the same code): the file after the call
delete(file, n) == write_json(file, keep_others(read_json(file), n))

-----------------------------------------------------------------------------
(* models/student.py: the scoring functions *)

RECURSIVE sum_values(_)
\* sum(marks.values())
sum_values(marks) ==
    IF DOMAIN marks = {} THEN 0
    ELSE LET s == CHOOSE x \in DOMAIN marks : TRUE
         IN  marks[s] + sum_values([t \in DOMAIN marks \ {s} |-> marks[t]])

all_above(marks) == \A s \in DOMAIN marks : marks[s] > PASS_MARK

\* all(mark >= 32 for mark in entry['marks'].values())
all_pass(marks) == \A s \in DOMAIN marks : marks[s] >= PASS_MARK

RECURSIVE pass_list(_)
\* the loop of pass_fail_determination over the entries that have a marks mapping
pass_list(data) ==
    IF data = <<>> THEN <<>>
    ELSE (IF all_pass(Head(data).marks)
          THEN <<[name |-> Head(data).name, marks |-> Head(data).marks]>>
          ELSE <<>>) \o pass_list(Tail(data))

\* Student.pass_fail_determination
pass_fail_determination(file) == pass_list(read_json(file))

every_student(data) == data

RECURSIVE passed_students(_)
\* [entry for entry in data if all(mark >= 32 ...)]
passed_students(data) ==
    IF data = <<>> THEN <<>>
    ELSE (IF all_pass(Head(data).marks) THEN <<Head(data)>> ELSE <<>>)
         \o passed_students(Tail(data))

RECURSIVE total_marks_of(_)
\* [sum(entry['marks'].values()) for entry in passed_students]
total_marks_of(data) ==
    IF data = <<>> THEN <<>>
    ELSE <<sum_values(Head(data).marks)>> \o total_marks_of(Tail(data))

RECURSIVE max(_)
max(xs) == IF Len(xs) = 1 THEN xs[1]
           ELSE IF Head(xs) >= max(Tail(xs)) THEN Head(xs) ELSE max(Tail(xs))

RECURSIVE min(_)
min(xs) == IF Len(xs) = 1 THEN xs[1]
           ELSE IF Head(xs) <= min(Tail(xs)) THEN Head(xs) ELSE min(Tail(xs))

\* the placeholder string "-", and an int, as values of one kind
Sentinel == [kind |-> "-", val |-> 0]
Number(n) == [kind |-> "number", val |-> n]

\* Student.highest_and_lowest_scores: <<highest, lowest>>
highest_and_lowest_scores(file) ==
    LET total_marks == total_marks_of(passed_students(read_json(file)))
    IN  <<IF total_marks # <<>> THEN Number(max(total_marks)) ELSE Sentinel,
          IF total_marks # <<>> THEN Number(min(total_marks)) ELSE Sentinel>>

\* round(num / den, 3) in thousandths, ties to the even thousandth (num >= 0, den > 0)
round3(num, den) ==
    LET q == (num * 1000) \div den
        r == (num * 1000) % den
    IN  IF 2 * r < den THEN q
        ELSE IF 2 * r > den THEN q + 1
        ELSE IF q % 2 = 0 THEN q ELSE q + 1

\* Student.calculate_percentage: "-", the percentage in thousandths, or the
\* ZeroDivisionError of total_marks / (len(marks) * 100) when marks is empty
calculate_percentage(marks) ==
    IF \E s \in DOMAIN marks : marks[s] < PASS_MARK THEN Sentinel
    ELSE IF Cardinality(DOMAIN marks) * 100 = 0 THEN [kind |-> "ZeroDivisionError", val |-> 0]
    ELSE Number(round3(sum_values(marks) * 100, Cardinality(DOMAIN marks) * 100))

RECURSIVE percentages_of(_)
\* the loop of calculate_percentage_for_all: (name, percentage) per entry
percentages_of(data) ==
    IF data = <<>> THEN <<>>
    ELSE <<<<Head(data).name, calculate_percentage(Head(data).marks)>>>>
         \o percentages_of(Tail(data))

\* Student.calculate_percentage_for_all: [raised, value]
calculate_percentage_for_all(file) ==
    LET percentages == percentages_of(read_json(file))
    IN  IF \E i \in 1..Len(percentages) : percentages[i][2].kind = "ZeroDivisionError"
        THEN [raised |-> "ZeroDivisionError", value |-> <<>>]
        ELSE [raised |-> "none", value |-> percentages]

RECURSIVE insert_by_total(_, _)
\* e put behind every entry whose total is at least its own: what a stable
\* sort with reverse=True does with an entry that comes later in the input
insert_by_total(sorted_data, e) ==
    IF sorted_data = <<>> THEN <<e>>
    ELSE IF sum_values(Head(sorted_data).marks) >= sum_values(e.marks)
         THEN <<Head(sorted_data)>> \o insert_by_total(Tail(sorted_data), e)
         ELSE <<e>> \o sorted_data

RECURSIVE insert_ascending(_, _)
insert_ascending(sorted_data, e) ==
    IF sorted_data = <<>> THEN <<e>>
    ELSE IF sum_values(Head(sorted_data).marks) <= sum_values(e.marks)
         THEN <<Head(sorted_data)>> \o insert_ascending(Tail(sorted_data), e)
         ELSE <<e>> \o sorted_data

RECURSIVE sorted_ascending(_)
sorted_ascending(data) ==
    IF data = <<>> THEN <<>>
    ELSE insert_ascending(sorted_ascending(SubSeq(data, 1, Len(data) - 1)), data[Len(data)])

RECURSIVE sorted_by_total(_)
\* sorted(passed_students, key=lambda x: sum(x['marks'].values()), reverse=True)
sorted_by_total(data) ==
    IF data = <<>> THEN <<>>
    ELSE insert_by_total(sorted_by_total(SubSeq(data, 1, Len(data) - 1)), data[Len(data)])

\* the sorted entries with their ranks: what calculate_rank enumerates
ranked(file) ==
    LET sorted_data == sorted_by_total(passed_students(read_json(file)))
    IN  [index \in 1..Len(sorted_data) |-> [entry |-> sorted_data[index], rank |-> index]]

\* Student.calculate_rank: [(name, index + 1), ...]
calculate_rank(file) ==
    [i \in 1..Len(ranked(file)) |-> <<ranked(file)[i].entry.name, ranked(file)[i].rank>>]

-----------------------------------------------------------------------------
(* main.py: the handlers.  Each yields what one iteration of the menu loop *)
(* leaves behind: the two files, where the process is, and what it did.    *)

\* an iteration that touched no file, called nothing and raised nothing
Quiet(tf, sf) ==
    [tf |-> tf, sf |-> sf, pc |-> "menu", cred |-> <<>>, authed |-> "not called",
     key |-> "", name |-> "", err |-> "none", out |-> <<>>, ret |-> <<>>,
     removed |-> <<0, 0>>]

\* dict.get(k): <<>> for None, <<v>> for a value
get(d, k) == IF k \in DOMAIN d THEN <<d[k]>> ELSE <<>>

\* any(teacher.get('teacher_id') == teacher_id for teacher in teachers)
teacher_id_taken(teachers, teacher_id) ==
    \E i \in 1..Len(teachers) : get(teachers[i], "teacher_id") = <<teacher_id>>

roll_never_taken(students, roll_number) == FALSE

\* any(student['roll_number'] == roll_number for student in students)
roll_number_taken(students, roll_number) ==
    \E i \in 1..Len(students) : students[i]["roll_number"] = roll_number

\* add_new_teacher_from_user: only ValueError is caught
add_new_teacher_from_user(tf, sf, cn, ci, n, subject, teacher_id, address, email, phone) ==
    LET teachers == read_json(tf)
        a == IF teachers # <<>> THEN authenticate_teacher(tf, cn, ci) ELSE "not called"
        q == [Quiet(tf, sf) EXCEPT !.authed = a,
                                   !.cred = IF teachers # <<>> THEN <<cn, ci>> ELSE <<>>,
                                   !.out = IF a = "True" THEN <<"Verified Successfully!!!">>
                                           ELSE <<>>]
        caught(line) == [q EXCEPT !.key = teacher_id, !.err = "ValueError",
                                  !.out = Append(q.out, line)]
    IN  IF a = "AuthenticationError"
        THEN [q EXCEPT !.pc = "crashed", !.err = "AuthenticationError"]
        ELSE IF teacher_id_taken(teachers, teacher_id)
        THEN caught("Teacher ID must be unique.")
        ELSE IF ~int(phone).ok
        THEN caught("invalid literal for int() with base 10")
        ELSE IF ~validate_email(email)
        THEN caught("Invalid email address")
        ELSE IF ~validate_phone_number(int(phone).val)
        THEN caught("Phone number must be an integer with 10 digits")
        ELSE [q EXCEPT !.key = teacher_id,
                       !.tf = append_json(tf, TeacherData(n, subject, teacher_id, address,
                                                          email, int(phone).val)),
                       !.out = Append(q.out, "Teacher added successfully!")]

\* add_new_student_from_user: ValueError and AuthenticationError are caught
add_new_student_from_user(tf, sf, cn, ci, n, roll_number, email, phone, marks, address) ==
    LET a == authenticate_teacher(tf, cn, ci)
        q == [Quiet(tf, sf) EXCEPT !.authed = a, !.cred = <<cn, ci>>,
                                   !.out = IF a = "True" THEN <<"Verified Successfully!!!">>
                                           ELSE <<>>]
        caught(line) == [q EXCEPT !.key = roll_number, !.err = "ValueError",
                                  !.out = Append(q.out, line)]
    IN  IF a = "AuthenticationError"
        THEN [q EXCEPT !.err = "AuthenticationError",
                       !.out = <<"Invalid teacher credentials">>]
        ELSE IF roll_number_taken(read_json(sf), roll_number)
        THEN caught("Student roll number must be unique.")
        ELSE IF ~int(phone).ok
        THEN caught("invalid literal for int() with base 10")
        ELSE [q EXCEPT !.key = roll_number,
                       !.sf = append_json(sf, StudentData(n, roll_number, email,
                                                          int(phone).val, marks, address)),
                       !.out = Append(q.out, "Student added successfully!")]

\* search_record: both NoMatchingNameError are caught
search_record(tf, sf, n) ==
    LET t == search(tf, n)
        s == search(sf, n)
        found == t.found \/ s.found
    IN  [Quiet(tf, sf) EXCEPT
            !.name = n,
            !.err = IF t.found /\ s.found THEN "none" ELSE "NoMatchingNameError",
            !.ret = (IF t.found THEN <<t.entry>> ELSE <<>>)
                    \o (IF s.found THEN <<s.entry>> ELSE <<>>),
            !.out = IF found THEN <<>> ELSE <<"No matching record found.">>]

\* delete_record: Teacher.delete and Student.delete return without raising,
\* so both flags are set
delete_record(tf, sf, n) ==
    LET tf2 == delete(tf, n)
        teacher_deleted == TRUE
        sf2 == delete(sf, n)
        student_deleted == TRUE
    IN  [Quiet(tf, sf) EXCEPT
            !.tf = tf2, !.sf = sf2, !.name = n,
            !.removed = <<Len(read_json(tf)) - Len(read_json(tf2)),
                          Len(read_json(sf)) - Len(read_json(sf2))>>,
            !.out = IF teacher_deleted \/ student_deleted
                    THEN <<"Record deleted successfully.">>
                    ELSE <<"No matching name found.">>]

\* calculate_percentages: nothing catches the ZeroDivisionError
calculate_percentages(tf, sf) ==
    LET percentages == calculate_percentage_for_all(sf)
    IN  IF percentages.raised # "none"
        THEN [Quiet(tf, sf) EXCEPT !.pc = "crashed", !.err = percentages.raised]
        ELSE [Quiet(tf, sf) EXCEPT !.ret = percentages.value]

-----------------------------------------------------------------------------
(* main.py: the menu loop *)

\* one iteration of the loop, which read choice and ran the handler that left o
Iteration(choice, o) ==
    /\ teachersFile' = o.tf
    /\ studentsFile' = o.sf
    /\ pc' = o.pc
    /\ op' = choice
    /\ cred' = o.cred
    /\ authed' = o.authed
    /\ key' = o.key
    /\ name' = o.name
    /\ err' = o.err
    /\ out' = o.out
    /\ ret' = o.ret
    /\ removed' = o.removed

AddTeacher(cn, ci, n, teacher_id, email, phone) ==
    /\ pc = "menu"
    /\ Len(read_json(teachersFile)) < MaxTeachers
    /\ Iteration("1", add_new_teacher_from_user(teachersFile, studentsFile, cn, ci, n,
                                                "subject", teacher_id, "address", email, phone))

AddStudent(cn, ci, n, roll_number, phone, marks) ==
    /\ pc = "menu"
    /\ Len(read_json(studentsFile)) < MaxStudents
    /\ Iteration("2", add_new_student_from_user(teachersFile, studentsFile, cn, ci, n,
                                                roll_number, ValidEmail, phone, marks, "address"))

\* choices 3, 4 and 5 read the files and print the entries
Display(choice) ==
    /\ pc = "menu"
    /\ Iteration(choice, Quiet(teachersFile, studentsFile))

Search(n) ==
    /\ pc = "menu"
    /\ Iteration("6", search_record(teachersFile, studentsFile, n))

Delete(n) ==
    /\ pc = "menu"
    /\ Iteration("7", delete_record(teachersFile, studentsFile, n))

PassFail ==
    /\ pc = "menu"
    /\ Iteration("8", [Quiet(teachersFile, studentsFile)
                         EXCEPT !.ret = pass_fail_determination(studentsFile)])

HighestLowest ==
    /\ pc = "menu"
    /\ Iteration("9", [Quiet(teachersFile, studentsFile)
                         EXCEPT !.ret = highest_and_lowest_scores(studentsFile)])

Percentages ==
    /\ pc = "menu"
    /\ Iteration("10", calculate_percentages(teachersFile, studentsFile))

Rank ==
    /\ pc = "menu"
    /\ Iteration("11", [Quiet(teachersFile, studentsFile)
                          EXCEPT !.ret = calculate_rank(studentsFile)])

Exit ==
    /\ pc = "menu"
    /\ Iteration("12", [Quiet(teachersFile, studentsFile)
                          EXCEPT !.pc = "exited", !.out = <<"Exiting program...">>])

InvalidChoice ==
    /\ pc = "menu"
    /\ Iteration("x", [Quiet(teachersFile, studentsFile)
                         EXCEPT !.out = <<"Invalid choice. Please enter a number from 1 to 12.">>])

Init ==
    /\ teachersFile = AbsentFile
    /\ studentsFile = AbsentFile
    /\ pc = "menu"
    /\ op = ""
    /\ cred = <<>>
    /\ authed = "not called"
    /\ key = ""
    /\ name = ""
    /\ err = "none"
    /\ out = <<>>
    /\ ret = <<>>
    /\ removed = <<0, 0>>
    /\ histT = <<>>
    /\ histS = <<>>

\* the values a prompt that is never reached reads: none
Unread == ""

\* the credentials add_new_teacher_from_user asks for: none while there is no teacher
TeacherCreds ==
    IF read_json(teachersFile) = <<>> THEN {<<Unread, Unread>>} ELSE Names \X Ids

\* the credentials add_new_student_from_user asks for
StudentCreds == Names \X Ids

\* what the prompts after the credentials read: nothing once authenticate_teacher raised
TeacherInputs(c, contacts) ==
    IF read_json(teachersFile) # <<>>
       /\ authenticate_teacher(teachersFile, c[1], c[2]) # "True"
    THEN {<<Unread, Unread, <<<<>>, <<>>>>>>}
    ELSE Names \X Ids \X contacts

StudentInputs(c, entries) ==
    IF authenticate_teacher(teachersFile, c[1], c[2]) # "True"
    THEN {<<Unread, Unread, <<<<>>, <<>>>>>>}
    ELSE Names \X Rolls \X entries

\* the histories are written by the observer of SpecOrder only
Unobserved == UNCHANGED <<histT, histS>>

Next ==
    \/ \E c \in TeacherCreds : \E i \in TeacherInputs(c, TeacherContacts) :
           AddTeacher(c[1], c[2], i[1], i[2], i[3][1], i[3][2]) /\ Unobserved
    \/ \E c \in StudentCreds : \E i \in StudentInputs(c, StudentEntries) :
           AddStudent(c[1], c[2], i[1], i[2], i[3][1], i[3][2]) /\ Unobserved
    \/ \E choice \in {"3", "4", "5"} : Display(choice) /\ Unobserved
    \/ \E n \in Names : Search(n) /\ Unobserved
    \/ \E n \in Names : Delete(n) /\ Unobserved
    \/ PassFail /\ Unobserved
    \/ HighestLowest /\ Unobserved
    \/ Percentages /\ Unobserved
    \/ Rank /\ Unobserved
    \/ Exit /\ Unobserved
    \/ InvalidChoice /\ Unobserved

Spec == Init /\ [][Next]_vars

-----------------------------------------------------------------------------
(* The scoring functions over every student collection of up to MaxScored  *)
(* entries: the menu accepts any marks mapping, so each is a collection    *)
(* the program can hold.                                                   *)

FirstTeacher == TeacherData("a", "subject", "1", "address", ValidEmail, int(Phone10).val)

ScoredStudent(i, marks) ==
    StudentData(IF i % 2 = 1 THEN "a" ELSE "b", ToString(i), ValidEmail,
                int(Phone10).val, marks, "address")

InitScore ==
    /\ teachersFile = write_json(AbsentFile, <<FirstTeacher>>)
    /\ \E len \in 0..MaxScored : \E m \in [1..len -> AllMarks] :
           studentsFile = write_json(AbsentFile, [i \in 1..len |-> ScoredStudent(i, m[i])])
    /\ pc = "menu"
    /\ op = ""
    /\ cred = <<>>
    /\ authed = "not called"
    /\ key = ""
    /\ name = ""
    /\ err = "none"
    /\ out = <<>>
    /\ ret = <<>>
    /\ removed = <<0, 0>>
    /\ histT = <<>>
    /\ histS = <<>>

NextScore ==
    \/ PassFail /\ Unobserved
    \/ HighestLowest /\ Unobserved
    \/ Percentages /\ Unobserved
    \/ Rank /\ Unobserved

SpecScore == InitScore /\ [][NextScore]_vars

-----------------------------------------------------------------------------
(* The create and delete operations with an observer that keeps, per       *)
(* collection, every record Teacher.accept / Student.accept was called     *)
(* with, in the order of the calls, and marks the ones a later delete      *)
(* named.                                                                  *)

Printed(line) == \E i \in 1..Len(out') : out'[i] = line

Created(hist, rec) == Append(hist, [rec |-> rec, live |-> TRUE])

Named(hist, n) ==
    [i \in 1..Len(hist) |-> IF hist[i].rec.name = n THEN [hist[i] EXCEPT !.live = FALSE]
                            ELSE hist[i]]

ObserveTeacher(n, teacher_id, email, phone) ==
    /\ histT' = IF Printed("Teacher added successfully!")
                THEN Created(histT, TeacherData(n, "subject", teacher_id, "address",
                                                email, int(phone).val))
                ELSE histT
    /\ histS' = histS

ObserveStudent(n, roll_number, phone, marks) ==
    /\ histS' = IF Printed("Student added successfully!")
                THEN Created(histS, StudentData(n, roll_number, ValidEmail,
                                                int(phone).val, marks, "address"))
                ELSE histS
    /\ histT' = histT

ObserveDelete(n) ==
    /\ histT' = Named(histT, n)
    /\ histS' = Named(histS, n)

\* the observed runs type in well-formed contact data and non-empty marks
OrderMarks == {m \in MenuMarks : DOMAIN m # {}}

NextOrder ==
    \/ \E c \in TeacherCreds : \E i \in TeacherInputs(c, {<<ValidEmail, Phone10>>}) :
           /\ Len(histT) + Len(histS) < MaxHist
           /\ AddTeacher(c[1], c[2], i[1], i[2], i[3][1], i[3][2])
           /\ ObserveTeacher(i[1], i[2], i[3][1], i[3][2])
    \/ \E c \in StudentCreds : \E i \in StudentInputs(c, {Phone10} \X OrderMarks) :
           /\ Len(histT) + Len(histS) < MaxHist
           /\ AddStudent(c[1], c[2], i[1], i[2], i[3][1], i[3][2])
           /\ ObserveStudent(i[1], i[2], i[3][1], i[3][2])
    \/ \E n \in Names : Delete(n) /\ ObserveDelete(n)

SpecOrder == Init /\ [][NextOrder]_vars

-----------------------------------------------------------------------------
(* Teacher creation over phone numbers of every shape int() accepts: with  *)
(* and without a sign, with a leading zero, with 3, 9, 10 and 11           *)
(* characters.  The values stay below 2^31.                                *)

PhoneNeg9 == <<"-", "1", "2", "3", "4", "5", "6", "7", "8", "9">>
PhoneNeg10 == <<"-", "1", "2", "3", "4", "5", "6", "7", "8", "9", "0">>
PhoneZero9 == <<"0", "1", "2", "3", "4", "5", "6", "7", "8", "9">>
PhoneInputs == {Phone10, PhoneNeg9, PhoneNeg10, PhoneZero9, Phone3}

NextPhone ==
    \/ \E c \in TeacherCreds : \E i \in TeacherInputs(c, {ValidEmail} \X PhoneInputs) :
           AddTeacher(c[1], c[2], i[1], i[2], i[3][1], i[3][2]) /\ Unobserved
    \/ \E n \in Names : Delete(n) /\ Unobserved

SpecPhone == Init /\ [][NextPhone]_vars

-----------------------------------------------------------------------------
(* Properties *)

Teachers == teachersFile.data
Students == studentsFile.data

\* C1: an add-teacher iteration that submits a teacher id some stored record
\* already has fails with the duplicate-key ValueError and leaves the Teacher
\* collection exactly as it was.
C1_DuplicateTeacherIdRejected ==
    [][(op' = "1" /\ key' # Unread
        /\ \E i \in 1..Len(Teachers) : Teachers[i].id = key')
       => (err' = "ValueError" /\ teachersFile' = teachersFile)]_vars

\* C2: an AuthenticationError, a NoMatchingNameError or a ValueError raised in
\* an iteration is caught in it and the loop reads the next choice; the loop
\* ends only through choice 12.
C2_NoErrorIsFatal ==
    /\ err \in {"AuthenticationError", "NoMatchingNameError", "ValueError"} => pc = "menu"
    /\ pc # "menu" => (pc = "exited" /\ op = "12")

\* C3: while the Teacher collection is non-empty, an iteration changes the
\* Teacher or the Student collection only if authenticate_teacher returned
\* True in that iteration.
C3_WritesNeedAuthentication ==
    [][(Teachers # <<>> /\ (teachersFile'.data # Teachers \/ studentsFile'.data # Students))
       => authed' = "True"]_vars

\* C4: authenticate_teacher(name, id) returns True iff some record of the
\* Teacher collection has that name and that id, raises AuthenticationError
\* otherwise (always against an empty or absent collection), and leaves every
\* record of the collection in place.
C4_AuthenticateIffPairStored ==
    [][authed' # "not called"
       => /\ authed' \in {"True", "AuthenticationError"}
          /\ authed' = "True"
             <=> \E i \in 1..Len(Teachers) :
                     Teachers[i].name = cred'[1] /\ Teachers[i].id = cred'[2]
          /\ Teachers = <<>> => authed' = "AuthenticationError"
          /\ authed' = "AuthenticationError"
             => (err' = "AuthenticationError" /\ teachersFile' = teachersFile)
          /\ Len(teachersFile'.data) >= Len(Teachers)
          /\ SubSeq(teachersFile'.data, 1, Len(Teachers)) = Teachers]_vars

\* C4 witness: the credentials were refused although one stored record has the
\* name and another one has the id.
C4_Witness ==
    /\ authed = "AuthenticationError"
    /\ \E i, j \in 1..Len(Teachers) :
           i # j /\ Teachers[i].name = cred[1] /\ Teachers[j].id = cred[2]

\* C5: right after delete-by-name, search-by-name for the same name raises
\* NoMatchingNameError in both collections: no record with the name is left.
C5_DeleteThenSearchMisses ==
    op = "7" => /\ ~search(teachersFile, name).found
                /\ ~search(studentsFile, name).found
                /\ \A i \in 1..Len(Teachers) : Teachers[i].name # name
                /\ \A i \in 1..Len(Students) : Students[i].name # name

\* C5 witness: a delete removed two teachers that shared the name, and a student.
C5_Witness == op = "7" /\ removed[1] = 2 /\ removed[2] >= 1

\* C6: no two records of the Student collection have the same roll_number.
C6_RollNumbersUnique ==
    \A i, j \in 1..Len(Students) :
        Students[i].roll_number = Students[j].roll_number => i = j

\* C6 witness: an add-student iteration submitted a stored roll number and was
\* refused.
C6_Witness ==
    /\ op = "2" /\ err = "ValueError" /\ authed = "True"
    /\ \E i \in 1..Len(Students) : Students[i].roll_number = key
    /\ \E i \in 1..Len(out) : out[i] = "Student roll number must be unique."

\* the records of a history no delete named, in creation order
Survivors(hist) ==
    LET kept == SelectSeq(hist, LAMBDA h : h.live)
    IN  [i \in 1..Len(kept) |-> kept[i].rec]

\* C7: each collection is the sequence of the records created in it that no
\* later delete matched by name, in the order of their creation.
C7_InsertionOrderKept ==
    /\ Teachers = Survivors(histT)
    /\ Students = Survivors(histS)

\* C7 witness: a delete removed a teacher created before two students, which
\* it left in place, and a teacher was created after it.
C7_Witness ==
    /\ Len(Students) = 2
    /\ Len(histT) = 2 /\ ~histT[1].live /\ histT[2].live
    /\ Len(Teachers) = 1

PassingIndices(data) ==
    {i \in 1..Len(data) : \A s \in DOMAIN data[i].marks : data[i].marks[s] >= 32}

\* C8: calculate_rank lists exactly the passing students, by total marks
\* descending, with ranks 1..n by position: a strictly higher total has a
\* smaller rank, equal totals have consecutive distinct ranks.
C8_RankByPosition ==
    op = "11" =>
        LET P == PassingIndices(Students)
            total(i) == sum_values(Students[i].marks)
        IN  /\ Len(ret) = Cardinality(P)
            /\ \E p \in [1..Len(ret) -> P] :
                   /\ \A k, l \in 1..Len(ret) : p[k] = p[l] => k = l
                   /\ \A k \in 1..Len(ret) : ret[k] = <<Students[p[k]].name, k>>
                   /\ \A k, l \in 1..Len(ret) : total(p[k]) > total(p[l]) => k < l
                   /\ \A k, l \in 1..Len(ret) :
                          (k < l /\ total(p[k]) = total(p[l]))
                          => \A m \in k..l : total(p[m]) = total(p[k])

\* C8 witness: two passing students with equal totals were ranked 1 and 2.
C8_Witness ==
    /\ op = "11" /\ Len(ret) = 2
    /\ sum_values(Students[1].marks) = sum_values(Students[2].marks)
    /\ ret[1][2] = 1 /\ ret[2][2] = 2

\* C9: for every marks mapping calculate_percentage returns "-" iff some mark
\* is below 32 and otherwise the number sum(marks)/count(marks) to 3 decimals.
C9_PercentageTotal ==
    op = "10" =>
        /\ err = "none"
        /\ Len(ret) = Len(Students)
        /\ \A i \in 1..Len(ret) :
               LET marks == Students[i].marks
                   count == Cardinality(DOMAIN marks)
               IN  /\ ret[i][2].kind \in {"-", "number"}
                   /\ ret[i][2].kind = "-" <=> \E s \in DOMAIN marks : marks[s] < 32
                   /\ ret[i][2].kind = "number"
                      => /\ 2 * (ret[i][2].val * count - 1000 * sum_values(marks)) <= count
                         /\ 2 * (1000 * sum_values(marks) - ret[i][2].val * count) <= count

\* the k-th passing student in stored order
KthPassing(data, k) ==
    CHOOSE i \in PassingIndices(data) :
        Cardinality({j \in PassingIndices(data) : j <= i}) = k

\* C10: pass_fail_determination returns, in stored order, exactly the students
\* whose every mark is >= 32, and applying it to its own result returns that
\* result.
C10_PassFilter ==
    op = "8" =>
        /\ Len(ret) = Cardinality(PassingIndices(Students))
        /\ \A k \in 1..Len(ret) :
               ret[k] = [name |-> Students[KthPassing(Students, k)].name,
                         marks |-> Students[KthPassing(Students, k)].marks]
        /\ pass_fail_determination(write_json(studentsFile, ret)) = ret

\* C10 witness: a student with a mark of 31 was left out and a student behind
\* it with every mark 32 was kept.
C10_Witness ==
    /\ op = "8" /\ Len(Students) = 2 /\ Len(ret) = 1
    /\ \E s \in DOMAIN Students[1].marks : Students[1].marks[s] = 31
    /\ DOMAIN Students[2].marks = SubjectNames
    /\ \A s \in DOMAIN Students[2].marks : Students[2].marks[s] = 32
    /\ ret[1].name = Students[2].name

\* C11: teacher creation accepts a phone number iff it is a positive integer
\* of exactly 10 decimal digits, so every phone_number stored in the Teacher
\* collection is one.
C11_StoredPhonesPositiveTenDigits ==
    \A i \in 1..Len(Teachers) :
        /\ Teachers[i].phone_number > 0
        /\ Teachers[i].phone_number \div 1000000000 \in 1..9

\* C12: highest_and_lowest_scores returns ("-", "-") iff no student passes,
\* and otherwise the maximum and the minimum of the totals of the passing
\* students only, so highest >= lowest.
C12_ExtremesOfPassing ==
    op = "9" =>
        LET P == PassingIndices(Students)
            total(i) == sum_values(Students[i].marks)
        IN  /\ Len(ret) = 2
            /\ P = {} <=> ret = <<[kind |-> "-", val |-> 0], [kind |-> "-", val |-> 0]>>
            /\ P # {} =>
                   /\ ret[1].kind = "number" /\ ret[2].kind = "number"
                   /\ \E i \in P : total(i) = ret[1].val
                   /\ \A i \in P : total(i) <= ret[1].val
                   /\ \E i \in P : total(i) = ret[2].val
                   /\ \A i \in P : total(i) >= ret[2].val
                   /\ ret[1].val >= ret[2].val

\* C12 witness: a failing student has a higher total than the highest reported.
C12_Witness ==
    /\ op = "9" /\ ret[1].kind = "number"
    /\ \E i \in 1..Len(Students) :
           /\ i \notin PassingIndices(Students)
           /\ sum_values(Students[i].marks) > ret[1].val

\* C13: delete_record prints "No matching name found." when the name is in
\* neither collection, and prints that the record was deleted only when it
\* removed at least one record.
C13_DeleteReportsMiss ==
    op = "7" =>
        /\ removed = <<0, 0>> => out = <<"No matching name found.">>
        /\ out = <<"Record deleted successfully.">> => removed[1] + removed[2] >= 1

====
